---------------------------- MODULE Spec2Model ----------------------------
(***************************************************************************)
(* Duplicate-file cleaner: clean_wechat_files.py (the current version,     *)
(* called "main" below) and clean_wechat_files_V1_2.py (the earlier        *)
(* version, called "v1_2").  A string is a sequence of characters, a       *)
(* character a one-letter TLA+ string; the two CJK characters of the       *)
(* indicator list are written by their code points, "U526F" and "U672C".   *)
(***************************************************************************)
EXTENDS Naturals, Sequences, FiniteSets, TLC

(***************************************************************************)
(* Bounds of the model.                                                    *)
(***************************************************************************)
\* Most environment faults (an unreadable file, a protected or busy file, a
\* file removed by somebody else, a failed log write) over the runs.
MaxFaults == 1
\* Number of times the program is run, one run after the other.
MaxRuns == 2

(***************************************************************************)
(* Python strings: code points, str.lower, str.strip, "in", "<".           *)
(***************************************************************************)
CodePoint(c) ==
    CASE c = " " -> 32   [] c = "(" -> 40   [] c = ")" -> 41
      [] c = "-" -> 45   [] c = "." -> 46   [] c = "/" -> 47
      [] c = "1" -> 49   [] c = "2" -> 50   [] c = "3" -> 51
      [] c = "A" -> 65   [] c = "C" -> 67   [] c = "D" -> 68
      [] c = "E" -> 69   [] c = "S" -> 83   [] c = "Y" -> 89
      [] c = "_" -> 95   [] c = "a" -> 97   [] c = "b" -> 98
      [] c = "c" -> 99   [] c = "d" -> 100  [] c = "e" -> 101
      [] c = "g" -> 103  [] c = "l" -> 108  [] c = "n" -> 110
      [] c = "o" -> 111  [] c = "p" -> 112  [] c = "r" -> 114
      [] c = "s" -> 115  [] c = "t" -> 116  [] c = "u" -> 117
      [] c = "x" -> 120  [] c = "y" -> 121
      [] c = "U526F" -> 21103 [] c = "U672C" -> 26412

\* str.lower on one character: A..Z move to a..z, everything else stays.
LowerChar(c) ==
    CASE c = "A" -> "a" [] c = "C" -> "c" [] c = "D" -> "d" [] c = "E" -> "e"
      [] c = "S" -> "s" [] c = "Y" -> "y" [] OTHER -> c

\* A function on 1..n as a tuple, so that TLC holds its elements instead of
\* computing them at every use.
AsTuple(f, n) == SubSeq(f, 1, n)

\* s.lower()
Lower(s) == AsTuple([k \in 1..Len(s) |-> LowerChar(s[k])], Len(s))

\* s.strip(): leading and trailing white space removed.
Strip(s) ==
    LET inked == {k \in 1..Len(s) : s[k] # " "}
    IN  IF inked = {} THEN <<>>
        ELSE LET first == CHOOSE k \in inked : \A m \in inked : k <= m
                 last  == CHOOSE k \in inked : \A m \in inked : k >= m
             IN  SubSeq(s, first, last)

\* sub in s
Contains(s, sub) ==
    \E k \in 0..Len(s) :
        /\ k + Len(sub) <= Len(s)
        /\ SubSeq(s, k + 1, k + Len(sub)) = sub

\* a < b on strings: code point order, a proper prefix first.
StrLess(a, b) ==
    LET n     == IF Len(a) < Len(b) THEN Len(a) ELSE Len(b)
        diffs == {k \in 1..n : a[k] # b[k]}
    IN  IF diffs = {} THEN Len(a) < Len(b)
        ELSE LET k == CHOOSE d \in diffs : \A m \in diffs : d <= m
             IN  CodePoint(a[k]) < CodePoint(b[k])

\* os.path.basename(path): what follows the last "/".
Basename(path) ==
    LET slashes == {k \in 1..Len(path) : path[k] = "/"}
    IN  IF slashes = {} THEN path
        ELSE LET last == CHOOSE k \in slashes : \A m \in slashes : k >= m
             IN  SubSeq(path, last + 1, Len(path))

\* os.path.join(root_dir, name)
PathJoin(root_dir, name) == root_dir \o <<"/">> \o name


(***************************************************************************)
(* The scanned folder.  Its root holds up to three files and its           *)
(* sub-folder "copy" one; a file's bytes are one of two byte streams.      *)
(***************************************************************************)
Folder == <<"d">>
CopyDir == PathJoin(Folder, <<"c", "o", "p", "y">>)

Name_a == <<"a", ".", "t", "x", "t">>
Name_a1 == <<"a", "(", "1", ")", ".", "t", "x", "t">>
Name_aCopy == <<"a", " ", "C", "o", "p", "y", ".", "t", "x", "t">>
Name_b == <<"b", ".", "t", "x", "t">>

File_a == PathJoin(Folder, Name_a)
File_a1 == PathJoin(Folder, Name_a1)
File_aCopy == PathJoin(Folder, Name_aCopy)
File_copy_b == PathJoin(CopyDir, Name_b)

\* The names each directory may hold, and every path of the folder.
DirNames(dir) ==
    IF dir = Folder THEN {Name_a, Name_a1, Name_aCopy}
    ELSE IF dir = CopyDir THEN {Name_b}
    ELSE {}

\* os.walk visits the folder top-down: the root, then its sub-folder.
WalkDirs == <<Folder, CopyDir>>

AllPaths ==
    UNION {{PathJoin(WalkDirs[d], name) : name \in DirNames(WalkDirs[d])} :
           d \in 1..Len(WalkDirs)}

\* The byte streams a file may hold.
Contents == {"bytes1", "bytes2"}

\* What the operator may type at a prompt.
FolderInputs == {<<"d", " ">>, <<"x">>}
ChoiceInputs ==
    {<<"1">>, <<"D", "e", "l", "e", "t", "e", "-", "A", "l", "l">>,
     <<" ", "2">>,
     <<"d", "e", "l", "e", "t", "e", "-", "b", "y", "-", "g", "r", "o", "u", "p">>,
     <<"3">>}
ConfirmInputs == {<<"y", "e", "s">>, <<"Y", "E", "S", " ">>, <<"y">>}
GroupInputs == {<<"y">>, <<" ", "Y">>, <<"n">>}

Str_yes == <<"y", "e", "s">>
Str_y == <<"y">>
Str_1 == <<"1">>
Str_2 == <<"2">>
Str_delete_all == <<"d", "e", "l", "e", "t", "e", "-", "a", "l", "l">>
Str_delete_by_group ==
    <<"d", "e", "l", "e", "t", "e", "-", "b", "y", "-", "g", "r", "o", "u", "p">>

\* All orderings of a finite set, as sequences.
Orderings(S) ==
    {s \in [1..Cardinality(S) -> S] : \A j, k \in 1..Cardinality(S) : j # k => s[j] # s[k]}

None == "None"

\* What stands for the run before the first one: no mode, nothing deleted.
NoPrevious == [delete_mode |-> None, deleted_count |-> 0, failures |-> 0]

\* The exit status of a process that has not exited: none of 0..255.
NoStatus == 255 + 1

(***************************************************************************)
(* Retention policy.                                                       *)
(***************************************************************************)
duplicate_indicators ==
    << <<"(", "1", ")">>, <<"U526F", "U672C">>, <<"c", "o", "p", "y">>,
       <<"(", "2", ")">>, <<"(", "U526F", "U672C", ")">>, <<"_", "U526F", "U672C">> >>

\* main: any(indicator in filename.lower() for indicator in duplicate_indicators)
is_duplicate_indicator_in_filename(filename) ==
    LET lowered == Lower(filename)
    IN  \E k \in 1..Len(duplicate_indicators) :
            Contains(lowered, duplicate_indicators[k])

\* v1_2: any(indicator in filename for indicator in duplicate_indicators)
is_duplicate_indicator_in_filename_V1_2(filename) ==
    \E k \in 1..Len(duplicate_indicators) :
        Contains(filename, duplicate_indicators[k])

\* The sort key of both versions, lambda x: (is_duplicate_indicator_in_filename(x), x);
\* x is the full path, as the call passes it.
SortKey(ver, x) ==
    IF ver = "main"
    THEN <<is_duplicate_indicator_in_filename(x), x>>
    ELSE <<is_duplicate_indicator_in_filename_V1_2(x), x>>

\* Mutant of KeyLess: the keys are compared on the indicator alone, the
\* path left out.
KeyLess_MarkOnly(k1, k2) == k1[1] # k2[1] /\ k2[1]

\* Tuple order on keys: False before True, then the strings.
KeyLess(k1, k2) ==
    IF k1[1] # k2[1] THEN k2[1] ELSE StrLess(k1[2], k2[2])

\* The comparisons of the sort keys of the paths of the folder, for each
\* version.
KeyBefore ==
    [ver \in {"main", "v1_2"} |->
        [x \in AllPaths |->
            [y \in AllPaths |-> KeyLess(SortKey(ver, x), SortKey(ver, y))]]]

\* Mutant of SortByKey: the list is sorted in descending order of the key.
SortByKey_Descending(ver, file_list) ==
    LET n == Len(file_list)
        Before(j, k) ==
            \/ KeyBefore[ver][file_list[k]][file_list[j]]
            \/ ~KeyBefore[ver][file_list[j]][file_list[k]] /\ j < k
        place == AsTuple([k \in 1..n |->
                            1 + Cardinality({j \in 1..n : j # k /\ Before(j, k)})], n)
    IN  AsTuple([pos \in 1..n |-> file_list[CHOOSE k \in 1..n : place[k] = pos]], n)

\* list.sort(key=...): a stable sort.  An element comes before another when
\* its key is smaller, or the keys are equal and it stood before it; its
\* place is one more than the number of elements that come before it.
SortByKey(ver, file_list) ==
    LET n == Len(file_list)
        Before(j, k) ==
            \/ KeyBefore[ver][file_list[j]][file_list[k]]
            \/ ~KeyBefore[ver][file_list[k]][file_list[j]] /\ j < k
        place == AsTuple([k \in 1..n |->
                            1 + Cardinality({j \in 1..n : j # k /\ Before(j, k)})], n)
    IN  AsTuple([pos \in 1..n |-> file_list[CHOOSE k \in 1..n : place[k] = pos]], n)

(***************************************************************************)
(* The operating system: the directory walk, the hash of a file's bytes,   *)
(* the removal of a file.                                                  *)
(***************************************************************************)
\* os.walk(folder) flattened by the two loops of main: each directory's
\* names in the order the system lists them, joined to the directory.
RECURSIVE WalkFrom(_, _, _)
WalkFrom(d, order, present) ==
    IF d > Len(WalkDirs) THEN <<>>
    ELSE LET full == [k \in 1..Len(order[d]) |-> PathJoin(WalkDirs[d], order[d][k])]
         IN  SelectSeq(full, LAMBDA q : q \in present) \o WalkFrom(d + 1, order, present)

\* hashlib.sha256 over the whole byte stream: equal bytes, equal hex digest;
\* different bytes, different digest.
Sha256Hex(bytes) == <<"sha256", bytes>>

\* Mutant of get_file_hash: a file that cannot be opened yields a digest.
get_file_hash_ReadsAnyway(filepath, present, bytes_of, cannot_read) ==
    IF filepath \notin present
    THEN None
    ELSE Sha256Hex(bytes_of[filepath])

\* get_file_hash(filepath): the digest, or None when the file cannot be read.
get_file_hash(filepath, present, bytes_of, cannot_read) ==
    IF filepath \notin present \/ filepath \in cannot_read
    THEN None
    ELSE Sha256Hex(bytes_of[filepath])

\* What may be wrong with a file that is about to be removed: it is
\* read-only (removal is refused until the attribute is cleared), locked
\* (removal is refused whatever its attributes), foreign (it belongs to
\* another account: removal is refused, and so is the change of its
\* attributes), or busy (another error).
FileFaults == {"none", "readonly", "locked", "foreign", "busy"}

\* Mutant of os_remove: removing a path that does not exist raises nothing.
os_remove_MissingOk(path, present, fault, writable) ==
    IF path \notin present THEN "ok"
    ELSE IF fault \in {"locked", "foreign"} THEN "PermissionError"
    ELSE IF fault = "readonly" /\ ~writable THEN "PermissionError"
    ELSE IF fault = "busy" THEN "OSError"
    ELSE "ok"

\* os.remove(path): "ok", or the exception it raises.
os_remove(path, present, fault, writable) ==
    IF path \notin present THEN "FileNotFoundError"
    ELSE IF fault \in {"locked", "foreign"} THEN "PermissionError"
    ELSE IF fault = "readonly" /\ ~writable THEN "PermissionError"
    ELSE IF fault = "busy" THEN "OSError"
    ELSE "ok"

\* os.chmod(path, stat.S_IWRITE): "ok", or the exception it raises.
os_chmod(path, present, fault) ==
    IF path \notin present THEN "FileNotFoundError"
    ELSE IF fault = "foreign" THEN "PermissionError"
    ELSE "ok"

\* log_deletion(file_path): one line appended to deletion_log.txt, or, when
\* the write fails, a warning and nothing appended.
log_deletion(file_path, lines, write_ok) ==
    IF write_ok
    THEN [lines |-> Append(lines, file_path), warned |-> FALSE]
    ELSE [lines |-> lines, warned |-> TRUE]

\* Mutant of delete_file: the removal is tried again after any failure.
delete_file_RetriesAlways(file_path, present, fault, lines, write_ok) ==
    LET first  == os_remove(file_path, present, fault, FALSE)
        chmods == IF first = "PermissionError" THEN 1 ELSE 0
        cleared == chmods = 1 /\ os_chmod(file_path, present, fault) = "ok"
        logged == log_deletion(file_path, lines, write_ok)
        failed(n) == [success |-> FALSE, first |-> first, attempts |-> n,
                      chmods |-> chmods, cleared |-> cleared, removed |-> FALSE,
                      lines |-> lines, warned |-> FALSE]
        done(n)   == [success |-> TRUE, first |-> first, attempts |-> n,
                      chmods |-> chmods, cleared |-> cleared, removed |-> TRUE,
                      lines |-> logged.lines, warned |-> logged.warned]
    IN  IF first = "ok" THEN done(1)
        ELSE IF os_remove(file_path, present, fault, cleared) = "ok" THEN done(2)
        ELSE failed(2)

\* Mutant of delete_file: the log line is written whether or not the removal
\* succeeded.
delete_file_LogsFailures(file_path, present, fault, lines, write_ok) ==
    LET first  == os_remove(file_path, present, fault, FALSE)
        chmods == IF first = "PermissionError" THEN 1 ELSE 0
        cleared == chmods = 1 /\ os_chmod(file_path, present, fault) = "ok"
        logged == log_deletion(file_path, lines, write_ok)
        failed(n) == [success |-> FALSE, first |-> first, attempts |-> n,
                      chmods |-> chmods, cleared |-> cleared, removed |-> FALSE,
                      lines |-> logged.lines, warned |-> logged.warned]
        done(n)   == [success |-> TRUE, first |-> first, attempts |-> n,
                      chmods |-> chmods, cleared |-> cleared, removed |-> TRUE,
                      lines |-> logged.lines, warned |-> logged.warned]
    IN  IF first = "ok" THEN done(1)
        ELSE IF first = "PermissionError"
        THEN IF os_chmod(file_path, present, fault) # "ok" THEN failed(1)
             ELSE IF os_remove(file_path, present, fault, TRUE) = "ok" THEN done(2)
             ELSE failed(2)
        ELSE failed(1)

\* delete_file(file_path) of main: the outcome, what the first os.remove
\* raised, the number of os.remove calls, the number of os.chmod calls and
\* whether the attribute was cleared, whether the file is gone, the log after
\* the call and whether the log write failed with a warning.
delete_file(file_path, present, fault, lines, write_ok) ==
    LET first  == os_remove(file_path, present, fault, FALSE)
        chmods == IF first = "PermissionError" THEN 1 ELSE 0
        cleared == chmods = 1 /\ os_chmod(file_path, present, fault) = "ok"
        logged == log_deletion(file_path, lines, write_ok)
        failed(n) == [success |-> FALSE, first |-> first, attempts |-> n,
                      chmods |-> chmods, cleared |-> cleared, removed |-> FALSE,
                      lines |-> lines, warned |-> FALSE]
        done(n)   == [success |-> TRUE, first |-> first, attempts |-> n,
                      chmods |-> chmods, cleared |-> cleared, removed |-> TRUE,
                      lines |-> logged.lines, warned |-> logged.warned]
    IN  IF first = "ok" THEN done(1)
        ELSE IF first = "PermissionError"
        THEN IF os_chmod(file_path, present, fault) # "ok" THEN failed(1)
             ELSE IF os_remove(file_path, present, fault, TRUE) = "ok" THEN done(2)
             ELSE failed(2)
        ELSE failed(1)

\* delete_file(file_path) of v1_2: the same, and no log is written.
delete_file_V1_2(file_path, present, fault, lines, write_ok) ==
    LET first  == os_remove(file_path, present, fault, FALSE)
        chmods == IF first = "PermissionError" THEN 1 ELSE 0
        cleared == chmods = 1 /\ os_chmod(file_path, present, fault) = "ok"
        failed(n) == [success |-> FALSE, first |-> first, attempts |-> n,
                      chmods |-> chmods, cleared |-> cleared, removed |-> FALSE,
                      lines |-> lines, warned |-> FALSE]
        done(n)   == [success |-> TRUE, first |-> first, attempts |-> n,
                      chmods |-> chmods, cleared |-> cleared, removed |-> TRUE,
                      lines |-> lines, warned |-> FALSE]
    IN  IF first = "ok" THEN done(1)
        ELSE IF first = "PermissionError"
        THEN IF os_chmod(file_path, present, fault) # "ok" THEN failed(1)
             ELSE IF os_remove(file_path, present, fault, TRUE) = "ok" THEN done(2)
             ELSE failed(2)
        ELSE failed(1)

(***************************************************************************)
(* hash_dict and duplicates: dictionaries in insertion order, a sequence   *)
(* of entries [hash, files].                                               *)
(***************************************************************************)
DictKeys(dict) == {dict[k].hash : k \in 1..Len(dict)}

\* if h not in hash_dict: hash_dict[h] = []; hash_dict[h].append(file)
DictAppend(dict, h, file) ==
    IF h \in DictKeys(dict)
    THEN [k \in 1..Len(dict) |->
            IF dict[k].hash = h
            THEN [dict[k] EXCEPT !.files = Append(@, file)]
            ELSE dict[k]]
    ELSE Append(dict, [hash |-> h, files |-> <<file>>])

\* Mutant of FilterDuplicates: every digest is kept, whatever its number of files.
FilterDuplicates_KeepsSingletons(dict) == SelectSeq(dict, LAMBDA e : Len(e.files) > 0)

\* {k: v for k, v in hash_dict.items() if len(v) > 1}
FilterDuplicates(dict) == SelectSeq(dict, LAMBDA e : Len(e.files) > 1)

\* sum(len(files_list) - 1 for files_list in duplicates.values())
RECURSIVE TotalDuplicates(_)
TotalDuplicates(dups) ==
    IF dups = <<>> THEN 0
    ELSE (Len(dups[1].files) - 1) + TotalDuplicates(Tail(dups))

(***************************************************************************)
(* State.                                                                  *)
(***************************************************************************)
VARIABLES
    version,        \* "main" or "v1_2": which of the two programs runs
    run,            \* 1..MaxRuns: the number of the current run
    faults,         \* environment faults met so far, over the runs
    listing,        \* per directory of WalkDirs, the order the system lists names
    present,        \* the paths that exist now
    bytes_of,       \* each file's byte stream
    cannot_read,    \* the files that cannot be opened for reading
    vanished,       \* the files somebody else removed during this run
    deletion_log,   \* the lines this run has appended to deletion_log.txt, one
                    \* deleted path per line (the program never reads the file)
    pc,             \* where the program is
    outcome,        \* how main() ended: None until it returns
    typed,          \* the line the operator typed at the latest prompt
    answers,        \* the lines typed at the per-group prompts, one per group asked
    files,          \* main: files
    h_pos,          \* main: position of the hashing loop in files
    hash_dict,      \* main: hash_dict
    read_errors,    \* the files reported as unreadable
    duplicates,     \* main: duplicates
    printed_groups, \* the groups shown to the operator
    delete_mode,    \* main: delete_mode ("all", "group"), None before the choice
    idx,            \* main: index of the group loop, from 1
    keep_file,      \* main: keep_file
    candidates,     \* main: candidates
    i,              \* main: index of the deletion loop, from 1
    deleted_count,  \* main: deleted_count
    failed_files,   \* main: failed_files
    log_warnings,   \* the paths whose log write failed with a warning
    calls,          \* every delete_file call of this run: the path, its group,
                    \* whether it existed, its fault, the outcome, what the first
                    \* os.remove raised, the numbers of os.remove and os.chmod
                    \* calls, whether the attribute was cleared and whether a
                    \* log line was appended
    summary,        \* the printed summary, None before it
    banner,         \* whether the termination banner has been printed
    exit_status,    \* the status the process exited with, NoStatus before
    previous        \* how the run before this one ended, NoPrevious in the first run

vars ==
    <<version, run, faults, listing, present, bytes_of, cannot_read, vanished,
      deletion_log, pc, outcome, typed, answers, files, h_pos, hash_dict, read_errors,
      duplicates, printed_groups, delete_mode, idx, keep_file, candidates, i,
      deleted_count, failed_files, log_warnings, calls, summary, banner,
      exit_status, previous>>

fsVars == <<listing, present, bytes_of, cannot_read, vanished, deletion_log>>
scanVars == <<files, h_pos, hash_dict, read_errors, printed_groups>>
groupVars == <<duplicates, idx, keep_file, candidates, i>>
tallyVars == <<deleted_count, failed_files, log_warnings, calls>>
frameVars == <<version, run, previous, exit_status, answers>>
runVars == <<version, run, previous, exit_status>>
endVars == <<outcome, summary, banner>>

NamesIn(S, d) == {name \in DirNames(WalkDirs[d]) : PathJoin(WalkDirs[d], name) \in S}

\* The first path of a set in string order.
FirstPath(S) == CHOOSE q \in S : \A r \in S : r = q \/ StrLess(q, r)

\* The program's variables as a run finds them.
FreshRun ==
    /\ pc = "start"
    /\ outcome = None
    /\ typed = <<>>
    /\ answers = <<>>
    /\ files = <<>>
    /\ h_pos = 1
    /\ hash_dict = <<>>
    /\ read_errors = {}
    /\ duplicates = <<>>
    /\ printed_groups = <<>>
    /\ delete_mode = None
    /\ idx = 1
    /\ keep_file = None
    /\ candidates = <<>>
    /\ i = 1
    /\ deleted_count = 0
    /\ failed_files = <<>>
    /\ log_warnings = <<>>
    /\ calls = <<>>
    /\ summary = None
    /\ banner = FALSE
    /\ exit_status = NoStatus

\* The folder holds any of the paths, listed in any order; the two byte
\* streams being interchangeable, the first file holds the first one.
Init ==
    /\ version \in {"main", "v1_2"}
    /\ run = 1
    /\ \E S \in SUBSET AllPaths :
        /\ present = S
        /\ bytes_of \in {b \in [S -> Contents] : S # {} => b[FirstPath(S)] = "bytes1"}
        /\ listing \in {<<o1, o2>> : o1 \in Orderings(NamesIn(S, 1)),
                                     o2 \in Orderings(NamesIn(S, 2))}
        /\ cannot_read \in {U \in SUBSET S : Cardinality(U) <= MaxFaults}
    /\ faults = Cardinality(cannot_read)
    /\ vanished = {}
    /\ deletion_log = <<>>
    /\ previous = NoPrevious
    /\ FreshRun

\* Mutant of Return: main() over, the script waits for the key without
\* printing the termination banner.
Return_NoBanner(how) ==
    /\ outcome' = how
    /\ banner' = FALSE
    /\ pc' = "wait_key"

\* return from main(), or its end: the finally clause of the script prints
\* the termination banner and waits for a key.
Return(how) ==
    /\ outcome' = how
    /\ banner' = TRUE
    /\ pc' = "wait_key"

(***************************************************************************)
(* What main() makes of a typed line.                                      *)
(***************************************************************************)
\* folder = input(...).strip()
folder(line) == Strip(line)

\* Mutant of choice: the line is stripped but not lower-cased.
choice_CaseSensitive(line) == Strip(line)

\* choice = input(...).strip().lower()
choice(line) == Lower(Strip(line))

\* Mutant of confirm: the line is lower-cased but not stripped.
confirm_NotStripped(line) == Lower(line)

\* confirm = input(...).strip().lower()
confirm(line) == Lower(Strip(line))

\* Mutant of confirm_group: the line is stripped but not lower-cased.
confirm_group_CaseSensitive(line) == Strip(line)

\* confirm_group = input(...).strip().lower()
confirm_group(line) == Lower(Strip(line))

(***************************************************************************)
(* main(), up to the list of duplicates.                                   *)
(***************************************************************************)
\* folder = input(...).strip(); if not os.path.isdir(folder): return;
\* for root_dir, _, filenames in os.walk(folder): ... files.append(full_path)
Start ==
    /\ pc = "start"
    /\ \E line \in FolderInputs :
        /\ typed' = line
        /\ IF folder(line) = Folder
           THEN /\ files' = WalkFrom(1, listing, present)
                /\ pc' = "hash"
                /\ UNCHANGED endVars
           ELSE /\ Return("invalid_root")
                /\ UNCHANGED <<files, summary>>
    /\ UNCHANGED <<frameVars, faults, fsVars, h_pos, hash_dict, read_errors,
                   printed_groups, groupVars, delete_mode, tallyVars>>

\* One turn of: for file in tqdm(files): h = get_file_hash(file); if h: ...
HashStep ==
    /\ pc = "hash"
    /\ h_pos <= Len(files)
    /\ LET file == files[h_pos]
           h    == get_file_hash(file, present, bytes_of, cannot_read)
       IN  IF h # None
           THEN /\ hash_dict' = DictAppend(hash_dict, h, file)
                /\ UNCHANGED read_errors
           ELSE /\ read_errors' = read_errors \cup {file}
                /\ UNCHANGED hash_dict
    /\ h_pos' = h_pos + 1
    /\ UNCHANGED <<frameVars, faults, fsVars, pc, typed, files, printed_groups,
                   groupVars, delete_mode, tallyVars, endVars>>

\* duplicates = {...}; if total_duplicates == 0: return; the groups are printed
\* and the program asks for the mode (main) or the confirmation (v1_2).
FindDuplicates ==
    /\ pc = "hash"
    /\ h_pos > Len(files)
    /\ duplicates' = FilterDuplicates(hash_dict)
    /\ IF TotalDuplicates(duplicates') = 0
       THEN /\ Return("nothing_to_do")
            /\ UNCHANGED <<printed_groups, summary>>
       ELSE /\ printed_groups' = [k \in 1..Len(duplicates') |-> duplicates'[k].files]
            /\ pc' = IF version = "main" THEN "choose" ELSE "confirm"
            /\ UNCHANGED endVars
    /\ UNCHANGED <<frameVars, faults, fsVars, typed, files, h_pos, hash_dict,
                   read_errors, idx, keep_file, candidates, i, delete_mode, tallyVars>>

\* While the program waits at its first prompt after the report, somebody
\* else removes one of the files of the groups it has shown.
Vanish ==
    /\ pc \in {"choose", "confirm"}
    /\ faults < MaxFaults
    /\ \E g \in 1..Len(printed_groups) :
        \E m \in 1..Len(printed_groups[g]) :
            /\ printed_groups[g][m] \in present
            /\ present' = present \ {printed_groups[g][m]}
            /\ vanished' = vanished \cup {printed_groups[g][m]}
    /\ faults' = faults + 1
    /\ UNCHANGED <<frameVars, listing, bytes_of, cannot_read, deletion_log, pc,
                   typed, scanVars, groupVars, delete_mode, tallyVars, endVars>>

(***************************************************************************)
(* main(), the deletion.                                                   *)
(***************************************************************************)
\* Mutant of EnterGroup: the kept file is not taken off the candidates.
EnterGroup_KeepNotPopped(n, mode, count, failed) ==
    /\ idx' = n
    /\ i' = 1
    /\ IF n > Len(duplicates)
       THEN /\ summary' = [deleted_count |-> count, failed_files |-> failed]
            /\ Return("completed")
            /\ UNCHANGED <<duplicates, keep_file, candidates>>
       ELSE /\ LET file_list == SortByKey("main", duplicates[n].files)
               IN  /\ duplicates' = [duplicates EXCEPT ![n].files = file_list]
                   /\ candidates' = file_list
                   /\ keep_file' = Head(file_list)
            /\ pc' = IF mode = "group" THEN "ask_group"
                     ELSE IF mode = "all" /\ n = 1 THEN "ask_all"
                     ELSE "delete"
            /\ UNCHANGED endVars

\* Mutant of EnterGroup: the group loop ends after its first turn.
EnterGroup_OnlyFirstGroup(n, mode, count, failed) ==
    /\ idx' = n
    /\ i' = 1
    /\ IF n > 1
       THEN /\ summary' = [deleted_count |-> count, failed_files |-> failed]
            /\ Return("completed")
            /\ UNCHANGED <<duplicates, keep_file, candidates>>
       ELSE /\ LET file_list == SortByKey("main", duplicates[n].files)
               IN  /\ duplicates' = [duplicates EXCEPT ![n].files = file_list]
                   /\ candidates' = Tail(file_list)
                   /\ keep_file' = Head(file_list)
            /\ pc' = IF mode = "group" THEN "ask_group"
                     ELSE IF mode = "all" /\ n = 1 THEN "ask_all"
                     ELSE "delete"
            /\ UNCHANGED endVars

\* main: the group loop reaches its turn n with the tallies count and failed.
\* Past the last group the summary is printed and main() ends; otherwise
\* file_list.sort(key=...), candidates = file_list.copy(),
\* keep_file = candidates.pop(0), and the branch on delete_mode up to the
\* next prompt or deletion.
EnterGroup(n, mode, count, failed) ==
    /\ idx' = n
    /\ i' = 1
    /\ IF n > Len(duplicates)
       THEN /\ summary' = [deleted_count |-> count, failed_files |-> failed]
            /\ Return("completed")
            /\ UNCHANGED <<duplicates, keep_file, candidates>>
       ELSE /\ LET file_list == SortByKey("main", duplicates[n].files)
               IN  /\ duplicates' = [duplicates EXCEPT ![n].files = file_list]
                   /\ candidates' = Tail(file_list)
                   /\ keep_file' = Head(file_list)
            /\ pc' = IF mode = "group" THEN "ask_group"
                     ELSE IF mode = "all" /\ n = 1 THEN "ask_all"
                     ELSE "delete"
            /\ UNCHANGED endVars

\* v1_2: the same turn: file_list.sort(key=...), keep_file = file_list.pop(0),
\* candidates = file_list.
EnterGroupV12(n, count, failed) ==
    /\ idx' = n
    /\ i' = 1
    /\ IF n > Len(duplicates)
       THEN /\ summary' = [deleted_count |-> count, failed_files |-> failed]
            /\ Return("completed")
            /\ UNCHANGED <<duplicates, keep_file, candidates>>
       ELSE /\ LET file_list == SortByKey("v1_2", duplicates[n].files)
               IN  /\ duplicates' = [duplicates EXCEPT ![n].files = Tail(file_list)]
                   /\ candidates' = Tail(file_list)
                   /\ keep_file' = Head(file_list)
            /\ pc' = "delete"
            /\ UNCHANGED endVars

\* main: choice = input(...).strip().lower(); delete_mode or return; then the
\* first turn of the group loop.
ChooseMode ==
    /\ pc = "choose"
    /\ version = "main"
    /\ \E line \in ChoiceInputs :
        /\ typed' = line
        /\ IF choice(line) \in {Str_delete_all, Str_1}
           THEN /\ delete_mode' = "all"
                /\ EnterGroup(1, "all", 0, <<>>)
           ELSE IF choice(line) \in {Str_delete_by_group, Str_2}
           THEN /\ delete_mode' = "group"
                /\ EnterGroup(1, "group", 0, <<>>)
           ELSE /\ Return("cancelled")
                /\ UNCHANGED <<delete_mode, groupVars, summary>>
    /\ UNCHANGED <<frameVars, faults, fsVars, scanVars, tallyVars>>

\* v1_2: confirm = input(...).strip().lower(); if confirm != 'yes': return;
\* then the first turn of the group loop.
ConfirmV12 ==
    /\ pc = "confirm"
    /\ version = "v1_2"
    /\ \E line \in ConfirmInputs :
        /\ typed' = line
        /\ IF confirm(line) # Str_yes
           THEN /\ Return("cancelled")
                /\ UNCHANGED <<groupVars, summary>>
           ELSE EnterGroupV12(1, 0, <<>>)
    /\ UNCHANGED <<frameVars, faults, fsVars, scanVars, delete_mode, tallyVars>>

\* main, delete_mode 'group': confirm_group = input(...).strip().lower();
\* if confirm_group != 'y': continue
ConfirmGroup ==
    /\ pc = "ask_group"
    /\ \E line \in GroupInputs :
        /\ typed' = line
        /\ answers' = Append(answers, line)
        /\ IF confirm_group(line) # Str_y
           THEN EnterGroup(idx + 1, delete_mode, deleted_count, failed_files)
           ELSE /\ pc' = "delete"
                /\ UNCHANGED <<groupVars, endVars>>
    /\ UNCHANGED <<runVars, faults, fsVars, scanVars, delete_mode, tallyVars>>

\* main, delete_mode 'all' and idx == 0: confirm = input(...).strip().lower();
\* if confirm != 'yes': return
ConfirmAll ==
    /\ pc = "ask_all"
    /\ \E line \in ConfirmInputs :
        /\ typed' = line
        /\ IF confirm(line) # Str_yes
           THEN /\ Return("cancelled")
                /\ UNCHANGED summary
           ELSE /\ pc' = "delete"
                /\ UNCHANGED endVars
    /\ UNCHANGED <<frameVars, faults, fsVars, scanVars, groupVars, delete_mode,
                   tallyVars>>

\* One delete_file(file) call on the file system: the fault the file has,
\* whether the log can be written, and the result.
DeleteCall(file, fault, write_ok) ==
    IF version = "main"
    THEN delete_file(file, present, fault, deletion_log, write_ok)
    ELSE delete_file_V1_2(file, present, fault, deletion_log, write_ok)

\* One turn of: for i, file in enumerate(candidates): success = delete_file(file);
\* if success: deleted_count += 1; else: failed_files.append(file)
\* What follows the last turn of a deletion loop, given the tallies: in main
\* the next turn of the group loop; in v1_2 the second deletion loop after the
\* first, and the next turn of the group loop after the second.
AfterLoop(count, failed) ==
    IF version = "main"
    THEN EnterGroup(idx + 1, delete_mode, count, failed)
    ELSE IF pc = "delete"
         THEN /\ pc' = "delete2"
              /\ i' = 1
              /\ UNCHANGED <<duplicates, idx, keep_file, candidates, endVars>>
         ELSE EnterGroupV12(idx + 1, count, failed)

DeleteOne ==
    /\ i <= Len(candidates)
    /\ \E fault \in FileFaults, write_ok \in BOOLEAN :
        LET file == candidates[i]
            r == DeleteCall(file, fault, write_ok)
            cost == (IF fault # "none" THEN 1 ELSE 0) + (IF write_ok THEN 0 ELSE 1)
            count == IF r.success THEN deleted_count + 1 ELSE deleted_count
            failed == IF r.success THEN failed_files ELSE Append(failed_files, file)
        IN  /\ file \notin present => fault = "none"
            /\ (version # "main" \/ ~r.success) => write_ok
            /\ faults + cost <= MaxFaults
            /\ faults' = faults + cost
            /\ present' = IF r.removed THEN present \ {file} ELSE present
            /\ deletion_log' = r.lines
            /\ log_warnings' = IF r.warned THEN Append(log_warnings, file)
                               ELSE log_warnings
            /\ deleted_count' = count
            /\ failed_files' = failed
            /\ calls' = Append(calls,
                    [path |-> file, group |-> idx, existed |-> file \in present,
                     fault |-> fault, success |-> r.success, first |-> r.first,
                     attempts |-> r.attempts, chmods |-> r.chmods,
                     cleared |-> r.cleared, logged |-> r.lines # deletion_log])
            /\ IF i = Len(candidates)
               THEN AfterLoop(count, failed)
               ELSE /\ i' = i + 1
                    /\ UNCHANGED <<pc, duplicates, idx, keep_file, candidates, endVars>>
    /\ UNCHANGED <<frameVars, listing, bytes_of, cannot_read, vanished, typed,
                   scanVars, delete_mode>>

\* main: the deletion loop of a group, then the next turn of the group loop.
DeleteStep ==
    /\ pc = "delete"
    /\ version = "main"
    /\ DeleteOne

\* v1_2: the first deletion loop of a group, then the second.
DeleteStepV12 ==
    /\ pc = "delete"
    /\ version = "v1_2"
    /\ DeleteOne

\* v1_2: the second deletion loop of a group, over the same candidates, then
\* the next turn of the group loop.
DeleteAgainV12 ==
    /\ pc = "delete2"
    /\ version = "v1_2"
    /\ DeleteOne

(***************************************************************************)
(* The script around main(): finally: print(...); input(...); sys.exit(0)  *)
(***************************************************************************)
\* The folder once a run is over: the files that remain, listed in the
\* order they were listed in.
Remaining(order, left) ==
    [d \in 1..Len(WalkDirs) |->
        SelectSeq(order[d], LAMBDA name : PathJoin(WalkDirs[d], name) \in left)]

\* input("...") returns on the Enter key, then sys.exit(0): the process is
\* gone, and with it its variables and the record of what it did in the
\* run; how it ended and what it has done to the files stay.
KeyPress ==
    /\ pc = "wait_key"
    /\ pc' = "exited"
    /\ exit_status' = 0
    /\ typed' = <<>>
    /\ answers' = <<>>
    /\ files' = <<>>
    /\ h_pos' = 1
    /\ hash_dict' = <<>>
    /\ read_errors' = {}
    /\ duplicates' = <<>>
    /\ printed_groups' = <<>>
    /\ idx' = 1
    /\ keep_file' = None
    /\ candidates' = <<>>
    /\ i' = 1
    /\ deleted_count' = 0
    /\ failed_files' = <<>>
    /\ log_warnings' = <<>>
    /\ calls' = <<>>
    /\ deletion_log' = <<>>
    /\ vanished' = {}
    /\ listing' = Remaining(listing, present)
    /\ bytes_of' = [q \in present |-> bytes_of[q]]
    /\ cannot_read' = cannot_read \cap present
    /\ UNCHANGED <<version, run, previous, faults, present, delete_mode, endVars>>

\* The operator starts the program again on the folder as a run that went
\* through to its summary has left it.
Restart ==
    /\ pc = "exited"
    /\ outcome = "completed"
    /\ run < MaxRuns
    /\ run' = run + 1
    /\ previous' = [delete_mode |-> delete_mode,
                    deleted_count |-> summary.deleted_count,
                    failures |-> Len(summary.failed_files)]
    /\ pc' = "start"
    /\ outcome' = None
    /\ delete_mode' = None
    /\ summary' = None
    /\ banner' = FALSE
    /\ exit_status' = NoStatus
    /\ UNCHANGED <<version, faults, fsVars, typed, answers, scanVars, groupVars,
                   tallyVars>>

Next ==
    \/ Start
    \/ HashStep
    \/ FindDuplicates
    \/ Vanish
    \/ ChooseMode
    \/ ConfirmV12
    \/ ConfirmGroup
    \/ ConfirmAll
    \/ DeleteStep
    \/ DeleteStepV12
    \/ DeleteAgainV12
    \/ KeyPress
    \/ Restart

Spec == Init /\ [][Next]_vars

\* A step of the running process, the operator answering the prompt it
\* waits at included.
RunStep ==
    \/ Start
    \/ HashStep
    \/ FindDuplicates
    \/ ChooseMode
    \/ ConfirmV12
    \/ ConfirmGroup
    \/ ConfirmAll
    \/ DeleteStep
    \/ DeleteStepV12
    \/ DeleteAgainV12
    \/ KeyPress

\* Where the process is: every one of its steps moves it.
position == <<pc, h_pos, idx, i>>

\* The process is scheduled as long as it can run, and the operator answers
\* every prompt in the end.
LiveSpec == Init /\ [][Next]_vars /\ WF_position(RunStep)

(***************************************************************************)
(* Properties.                                                             *)
(***************************************************************************)
Range(seq) == {seq[k] : k \in 1..Len(seq)}

\* The files of the group the loop is at: the kept one and the candidates.
Members == {keep_file} \cup Range(candidates)

\* The number of non-kept members over the groups shown.
RECURSIVE NonKept(_)
NonKept(groups) ==
    IF groups = <<>> THEN 0 ELSE (Len(groups[1]) - 1) + NonKept(Tail(groups))

\* The run deletes in bulk: main with delete_mode 'all', v1_2 always.
BulkPending ==
    \/ version = "main" /\ delete_mode = "all" /\ pc = "ask_all"
    \/ version = "v1_2" /\ pc = "confirm"

\* The bulk confirmation has been answered, and typed is the answer.
BulkAnswered ==
    \/ version = "main" /\ delete_mode = "all" /\ pc \in {"delete", "wait_key"}
    \/ version = "v1_2" /\ pc \in {"delete", "delete2"}
    \/ version = "v1_2" /\ pc = "wait_key" /\ outcome \in {"cancelled", "completed"}

\* The program has deleted nothing: no delete_file call, no count, no log
\* line, and every scanned file that nobody else removed is still there.
Untouched ==
    /\ calls = <<>>
    /\ deleted_count = 0
    /\ deletion_log = <<>>
    /\ (Range(files) \ vanished) \subseteq present

NameMarked(path) ==
    IF version = "main"
    THEN is_duplicate_indicator_in_filename(Basename(path))
    ELSE is_duplicate_indicator_in_filename_V1_2(Basename(path))

\* C2 as stated: in every group, when some member's file name holds no
\* indicator, the kept path is such a member.
C2_KeepsUnmarkedName ==
    keep_file # None =>
        ((\E m \in Members : ~NameMarked(m)) => ~NameMarked(keep_file))

\* C3 as stated: a confirmed bulk run in which no removal meets a fault ends
\* completed, its summary counting every non-kept member of the groups as a
\* success and listing no failed path.
C3_BulkSummary ==
    (/\ pc = "wait_key"
     /\ outcome = "completed"
     /\ version = "main" => delete_mode = "all"
     /\ vanished = {}
     /\ \A k \in 1..Len(calls) : calls[k].fault = "none")
    => /\ summary.deleted_count = NonKept(printed_groups)
       /\ summary.failed_files = <<>>

\* C3 in main alone, where it holds.
C3_BulkSummaryMain == version = "main" => C3_BulkSummary

\* The group loop of main asks before each group.
GroupMode == version = "main" /\ delete_mode = "group"

\* The delete_file calls made for group g.
CallsOf(g) == {k \in 1..Len(calls) : calls[k].group = g}

\* The per-group property, yes[g] telling whether the answer for group g
\* counts as a yes: one prompt per group reached, a prompt for every group by
\* the end of the run; delete_file is called for a group only when its
\* answer is a yes; an accepted group has each of its candidates passed to
\* deletion; a declined group has no call and each of its files that nobody
\* else removed is still there.
PerGroup(yes) ==
    GroupMode =>
        /\ Len(answers) = IF pc = "ask_group" THEN idx - 1
                          ELSE IF pc = "delete" THEN idx
                          ELSE Len(duplicates)
        /\ \A k \in 1..Len(calls) :
                calls[k].group <= Len(answers) /\ yes[calls[k].group]
        /\ \A g \in 1..Len(answers) :
                g < idx =>
                    IF yes[g]
                    THEN \A f \in Range(Tail(duplicates[g].files)) :
                            \E k \in CallsOf(g) : calls[k].path = f
                    ELSE /\ CallsOf(g) = {}
                         /\ (Range(duplicates[g].files) \ vanished) \subseteq present

\* C4 as stated: in per-group mode every group gets its own confirmation; a
\* group's candidates are passed to deletion if and only if the response
\* for the group is "y" in any letter case; none of the files of a declined
\* group is deleted, and the later groups are still prompted and processed.
C4_AnswerIsY == PerGroup([g \in 1..Len(answers) |-> Lower(answers[g]) = Str_y])

\* C4 amended: as C4, the response counting as a yes when, with surrounding
\* white space removed and letters lower-cased, it is "y" (" Y" counts).
C4_NormalisedY ==
    PerGroup([g \in 1..Len(answers) |-> Lower(Strip(answers[g])) = Str_y])

\* Witness of C4: two groups, the first declined, the second accepted and
\* its candidate deleted, the run at its end.
C4_Witness ==
    /\ GroupMode
    /\ pc = "wait_key"
    /\ Len(answers) = 2
    /\ Lower(Strip(answers[1])) # Str_y
    /\ Lower(Strip(answers[2])) = Str_y
    /\ CallsOf(1) = {}
    /\ deleted_count >= 1

\* The files the hashing loop has been through.
Hashed == {files[k] : k \in 1..(h_pos - 1)}

\* The files held in a dictionary of digests.
FilesIn(dict) == UNION {Range(dict[k].files) : k \in 1..Len(dict)}

\* The files of the groups shown to the operator.
Shown == UNION {Range(printed_groups[g]) : g \in 1..Len(printed_groups)}

\* The paths delete_file has been called on.
Called == {calls[k].path : k \in 1..Len(calls)}

\* C5: a file whose hash cannot be computed is reported, is in no group,
\* is neither kept nor a candidate, is never passed to deletion and stays in
\* place; every other file gets hashed under its digest, and is shown in a
\* group exactly when another readable file has the same bytes.
C5_UnreadableExcluded ==
    /\ \A f \in Hashed \cap cannot_read :
            /\ f \in read_errors
            /\ f \notin FilesIn(hash_dict)
            /\ f \notin FilesIn(duplicates)
            /\ f \notin Shown
            /\ f # keep_file
            /\ f \notin Range(candidates)
            /\ f \notin Called
            /\ f \in present
    /\ \A f \in Hashed \ cannot_read :
            /\ f \notin read_errors
            /\ \E k \in 1..Len(hash_dict) :
                    /\ hash_dict[k].hash = Sha256Hex(bytes_of[f])
                    /\ f \in Range(hash_dict[k].files)
            /\ pc \notin {"start", "hash"} =>
                    (f \in Shown <=>
                        \E g \in Hashed \ cannot_read :
                            g # f /\ bytes_of[g] = bytes_of[f])

\* Witness of C5: an unreadable file with the bytes of two readable files;
\* the run has reported it, grouped the two others and deleted one of them.
C5_Witness ==
    /\ outcome = "completed"
    /\ deleted_count = 1
    /\ \E f \in read_errors :
            \A g \in Shown : bytes_of[g] = bytes_of[f]

\* The paths delete_file has removed.
Deleted == {calls[k].path : k \in {n \in 1..Len(calls) : calls[n].success}}

\* C6 (main, the version that keeps the log): every successful deletion has
\* exactly one log line, or, when the log write failed, exactly one warning
\* and no line; a line is there only once the file is gone; a failed
\* deletion has neither; a deletion whose log write failed is counted as a
\* success, and the run goes on to the end of the groups.
C6_LogOncePerSuccess ==
    version = "main" =>
        /\ Range(deletion_log) \cup Range(log_warnings) = Deleted
        /\ Range(deletion_log) \cap Range(log_warnings) = {}
        /\ Cardinality(Range(deletion_log)) = Len(deletion_log)
        /\ Cardinality(Range(log_warnings)) = Len(log_warnings)
        /\ Len(deletion_log) + Len(log_warnings) = deleted_count
        /\ Range(deletion_log) \cap present = {}
        /\ \A k \in 1..Len(calls) :
                /\ calls[k].logged => calls[k].success
                /\ ~calls[k].success =>
                        calls[k].path \notin Range(deletion_log) \cup Range(log_warnings)
        /\ (pc = "wait_key" /\ log_warnings # <<>>) =>
                /\ outcome = "completed"
                /\ summary.deleted_count = deleted_count
                /\ delete_mode = "all" => Len(calls) = NonKept(printed_groups)

\* Witness of C6: two deletions, the log write of the first failed with a
\* warning, the second logged, the run at its end.
C6_Witness ==
    /\ version = "main"
    /\ outcome = "completed"
    /\ Len(calls) = 2
    /\ log_warnings = <<calls[1].path>>
    /\ deletion_log = <<calls[2].path>>
    /\ summary.deleted_count = 2

\* C7: a delete_file call on a path that does not exist fails, and appends
\* nothing to the log.
C7_MissingPathFails ==
    \A k \in 1..Len(calls) :
        ~calls[k].existed =>
            /\ ~calls[k].success
            /\ ~calls[k].logged
            /\ calls[k].path \in Range(failed_files)

\* Witness of C7: delete_file called on a path that an earlier call of the
\* run has removed.
C7_Witness ==
    \E k \in 1..Len(calls) :
        /\ ~calls[k].existed
        /\ \E n \in 1..(k - 1) : calls[n].path = calls[k].path /\ calls[n].success

\* C8: after grouping, every group shown has at least 2 distinct members,
\* all of the digest of the group; a file alone under its digest is in no
\* group, is neither kept nor a candidate and is never passed to deletion.
C8_GroupsOfTwoOrMore ==
    pc \notin {"start", "hash"} =>
        /\ Len(printed_groups) = Len(duplicates)
        /\ \A g \in 1..Len(printed_groups) :
                /\ Len(printed_groups[g]) >= 2
                /\ Cardinality(Range(printed_groups[g])) = Len(printed_groups[g])
                /\ \A m \in Range(printed_groups[g]) :
                        Sha256Hex(bytes_of[m]) = duplicates[g].hash
        /\ \A k \in 1..Len(hash_dict) :
                Len(hash_dict[k].files) = 1 =>
                    /\ hash_dict[k].hash \notin DictKeys(duplicates)
                    /\ hash_dict[k].files[1] \notin Shown
                    /\ hash_dict[k].files[1] # keep_file
                    /\ hash_dict[k].files[1] \notin Range(candidates)
                    /\ hash_dict[k].files[1] \notin Called

\* Witness of C8: a file alone under its digest beside a group of three;
\* the run has deleted the two candidates of the group.
C8_Witness ==
    /\ outcome = "completed"
    /\ Len(hash_dict) = 2
    /\ Len(printed_groups) = 1
    /\ Len(printed_groups[1]) = 3
    /\ deleted_count = 2

\* Whether a path holds an indicator in some letter case.
MarkedAnyCase(path) ==
    \E k \in 1..Len(duplicate_indicators) : Contains(Lower(path), duplicate_indicators[k])

\* C9 as stated: the classification is case-insensitive: a path is classified
\* as marked when it holds an indicator in any letter case, and the kept path
\* of a group follows that classification.
C9_CaseInsensitive ==
    /\ \A k \in 1..Len(files) : SortKey(version, files[k])[1] = MarkedAnyCase(files[k])
    /\ keep_file # None =>
            ((\E m \in Members : ~MarkedAnyCase(m)) => ~MarkedAnyCase(keep_file))

\* C9 in main alone, where it holds.
C9_CaseInsensitiveMain == version = "main" => C9_CaseInsensitive

\* This run follows a bulk run that was confirmed and in which every
\* delete_file call succeeded.
AfterCleanBulkRun ==
    /\ run > 1
    /\ previous.delete_mode = "all"
    /\ previous.failures = 0

\* C10: the run that follows a confirmed bulk run in which every deletion
\* succeeded, on the folder as that run left it, finds no duplicate group,
\* asks nothing about deletion, calls delete_file on nothing and ends with
\* nothing to do, every file it scanned still in place.
C10_SecondRunFindsNothing ==
    AfterCleanBulkRun =>
        /\ duplicates = <<>>
        /\ printed_groups = <<>>
        /\ calls = <<>>
        /\ deleted_count = 0
        /\ deletion_log = <<>>
        /\ pc \in {"start", "hash", "wait_key", "exited"}
        /\ outcome \in {None, "invalid_root", "nothing_to_do"}
        /\ (pc = "wait_key" /\ folder(typed) = Folder) => outcome = "nothing_to_do"
        /\ Range(files) \subseteq present

\* Witness of C10: the first run deleted two files in bulk without a
\* failure, the second run has scanned the two files left and ended with
\* nothing to do.
C10_Witness ==
    /\ AfterCleanBulkRun
    /\ previous.deleted_count = 2
    /\ Len(files) = 2
    /\ pc = "wait_key"
    /\ outcome = "nothing_to_do"

\* C11: every run, however main() ends (invalid root, nothing to do,
\* cancelled, completed), prints the termination banner before it waits for
\* the key, has no exit status before the key is pressed, exits with status
\* 0 and nothing else, and does get there.
C11_BannerKeyExitZero ==
    /\ [](/\ pc = "wait_key" =>
                /\ banner
                /\ outcome \in {"invalid_root", "nothing_to_do", "cancelled", "completed"}
          /\ pc = "exited" =>
                /\ banner
                /\ exit_status = 0
                /\ outcome \in {"invalid_root", "nothing_to_do", "cancelled", "completed"}
          /\ pc # "exited" => exit_status = NoStatus)
    /\ (pc # "exited") ~> (pc = "exited")

\* Witness of C11: a run that completed with a failed deletion has exited
\* with status 0 after its banner.
C11_Witness ==
    /\ pc = "exited"
    /\ outcome = "completed"
    /\ summary.failed_files # <<>>
    /\ banner
    /\ exit_status = 0

\* C12: the retention decision depends only on the set of the paths of the
\* group: whatever the order the members are handed to the sort in, the sort
\* gives the kept path and the sequence of candidates the program holds.
C12_OrderIndependent ==
    keep_file # None =>
        \A o \in Orderings(Members) :
            /\ Head(SortByKey(version, o)) = keep_file
            /\ Tail(SortByKey(version, o)) = candidates

\* Witness of C12: a group of three that the hashing loop met in another
\* order than the sorted one, its kept file and two candidates decided.
C12_Witness ==
    /\ keep_file # None
    /\ Len(candidates) = 2
    /\ printed_groups[idx] # <<keep_file>> \o candidates
    /\ Range(printed_groups[idx]) = Members

\* The error a failed delete_file call reports at its "Reason:" line: the
\* exception of its last os.remove.
ErrorOf(call) ==
    IF ~call.existed THEN "FileNotFoundError"
    ELSE os_remove(call.path, {call.path}, call.fault, call.attempts = 2)

\* The delete_file calls that failed, in the order they were made.
FailedCalls == SelectSeq(calls, LAMBDA c : ~c.success)

\* C13 as stated (main): the failure list holds, for every failed deletion,
\* the pair of the path and the description of the error, and the summary
\* lists each failed path with its reason.
C13_FailuresWithReasons ==
    version = "main" =>
        /\ failed_files = [k \in 1..Len(FailedCalls) |->
                            <<FailedCalls[k].path, ErrorOf(FailedCalls[k])>>]
        /\ (pc = "wait_key" /\ outcome = "completed") =>
                summary.failed_files = [k \in 1..Len(FailedCalls) |->
                            <<FailedCalls[k].path, ErrorOf(FailedCalls[k])>>]

\* What main does: the failure list and the summary hold the failed paths
\* alone, in the order of the failures.
C13_FailedPathsOnly ==
    version = "main" =>
        /\ failed_files = [k \in 1..Len(FailedCalls) |-> FailedCalls[k].path]
        /\ (pc = "wait_key" /\ outcome = "completed") =>
                summary.failed_files = failed_files

\* The four mode selections main knows.
ModeSelections == {Str_delete_all, Str_1, Str_delete_by_group, Str_2}

\* The mode prompt of main is answered by this step.
ModeAnswer == version = "main" /\ pc = "choose" /\ pc' # "choose"

\* The run has been cancelled at the mode prompt, before any other prompt.
AbortedAtMode ==
    /\ pc = "wait_key"
    /\ outcome = "cancelled"
    /\ delete_mode = None
    /\ answers = <<>>
    /\ Untouched

\* C14 as stated: when the line typed at the mode prompt is none of
\* 'delete-all', '1', 'delete-by-group', '2', the run is cancelled at once,
\* with no confirmation prompt, no file deleted and no log line.
C14_LiteralChoice ==
    [][(ModeAnswer /\ typed' \notin ModeSelections) => AbortedAtMode']_vars

\* C14 amended: as C14, the selection being the typed line with surrounding
\* white space removed and letters lower-cased ("Delete-All" and " 2" go on
\* to the confirmation of their mode); a run cancelled at the mode prompt
\* stays without a deletion and a log line until it exits.
C14_NormalisedChoice ==
    /\ [][ModeAnswer =>
            IF Lower(Strip(typed')) \in ModeSelections
            THEN /\ pc' \in {"ask_all", "ask_group"}
                 /\ delete_mode' = IF Lower(Strip(typed')) \in {Str_delete_all, Str_1}
                                   THEN "all" ELSE "group"
                 /\ outcome' = None
            ELSE AbortedAtMode']_vars
    /\ []((version = "main" /\ pc = "wait_key" /\ outcome = "cancelled"
                /\ delete_mode = None) => AbortedAtMode)

\* Witness of C14: main has shown two groups, the operator typed "3" at the
\* mode prompt and the run is cancelled.
C14_Witness ==
    /\ version = "main"
    /\ typed = <<"3">>
    /\ Len(printed_groups) = 2
    /\ AbortedAtMode

\* The candidates of group g once the group loop has been through it.
CandidatesOf(g) ==
    IF version = "main"
    THEN Range(Tail(duplicates[g].files))
    ELSE Range(duplicates[g].files)

\* Deletion has been approved for group g: by the bulk confirmation, or in
\* the per-group mode by the answer for the group.
Approved(g) ==
    IF GroupMode
    THEN g <= Len(answers) /\ confirm_group(answers[g]) = Str_y
    ELSE TRUE

\* C15 as stated: no path is passed to delete_file twice in a run, and each
\* candidate of each approved group the loop has been through has been passed
\* to it exactly once, whether or not earlier calls failed.
C15_EachCandidateOnce ==
    /\ \A j, k \in 1..Len(calls) : calls[j].path = calls[k].path => j = k
    /\ \A g \in 1..Len(duplicates) :
            (g < idx /\ Approved(g)) =>
                \A f \in CandidatesOf(g) :
                    Cardinality({k \in CallsOf(g) : calls[k].path = f}) = 1

\* C15 in main alone, where it holds.
C15_EachCandidateOnceMain == version = "main" => C15_EachCandidateOnce

\* What v1_2 does: each candidate of each group the loop has been through has
\* been passed to delete_file twice.
C15_TwiceInV12 ==
    version = "v1_2" =>
        \A g \in 1..Len(duplicates) :
            g < idx =>
                \A f \in CandidatesOf(g) :
                    Cardinality({k \in CallsOf(g) : calls[k].path = f}) = 2

\* What both claims about delete_file share: a call that did not start with
\* PermissionError makes one os.remove call and no os.chmod call; no call
\* makes more than two os.remove calls; every call hands its outcome to the
\* loop, which counts a success and lists a failure.
OneTryUnlessDenied ==
    /\ \A k \in 1..Len(calls) :
            /\ calls[k].first # "PermissionError" =>
                    calls[k].attempts = 1 /\ calls[k].chmods = 0
            /\ calls[k].attempts \in {1, 2}
            /\ calls[k].success \in BOOLEAN
    /\ Len(failed_files) = Len(FailedCalls)
    /\ deleted_count = Len(calls) - Len(FailedCalls)

\* C16 as stated: a delete_file call whose first os.remove raises
\* PermissionError clears the read-only attribute and calls os.remove a second
\* time, once; after any other failure it does not retry; it always returns
\* its outcome, after at most two os.remove calls.
C16_RetryOnceWhenDenied ==
    /\ \A k \in 1..Len(calls) :
            calls[k].first = "PermissionError" =>
                calls[k].cleared /\ calls[k].attempts = 2
    /\ OneTryUnlessDenied

\* C16 amended: after PermissionError the call tries to clear the read-only
\* attribute; when the attribute is cleared it calls os.remove a second time,
\* once, and when os.chmod fails it returns failed without a second os.remove.
C16_RetryOnceWhenCleared ==
    /\ \A k \in 1..Len(calls) :
            calls[k].first = "PermissionError" =>
                /\ calls[k].chmods = 1
                /\ IF calls[k].cleared
                   THEN calls[k].attempts = 2
                   ELSE calls[k].attempts = 1 /\ ~calls[k].success
    /\ OneTryUnlessDenied

\* Witness of C16: a call on a read-only file, removed at the second
\* os.remove once the attribute is cleared, and the run gone on to its end.
C16_Witness ==
    /\ pc = "wait_key"
    /\ outcome = "completed"
    /\ \E k \in 1..Len(calls) :
            /\ calls[k].first = "PermissionError"
            /\ calls[k].chmods = 1
            /\ calls[k].cleared
            /\ calls[k].attempts = 2
            /\ calls[k].success

\* The position in files of the first file the hashing loop put under the
\* digest h.
FirstSeen(h) ==
    CHOOSE k \in 1..Len(files) :
        /\ files[k] \notin cannot_read
        /\ Sha256Hex(bytes_of[files[k]]) = h
        /\ \A j \in 1..(k - 1) :
                files[j] \in cannot_read \/ Sha256Hex(bytes_of[files[j]]) # h

Entered(g) == g < idx \/ (g = idx /\ keep_file # None)

\* The kept file of a group the loop has reached: in main the head of the
\* sorted list, in v1_2 the member popped off the list.
KeptOf(g) ==
    IF version = "main"
    THEN duplicates[g].files[1]
    ELSE CHOOSE f \in Range(printed_groups[g]) : f \notin Range(duplicates[g].files)

\* C18: at any point of a run, whatever the mode, the answers and the
\* failures, the kept file of every group the loop has reached is a member
\* of the group that was never passed to delete_file and is still there
\* (unless somebody else removed it), so a file of the group is left; a
\* group the loop has not reached has no call and all its files; only files
\* shown in a group are passed to delete_file, and every scanned file outside
\* the groups is still there.
C18_KeptFileSurvives ==
    /\ \A g \in 1..Len(duplicates) :
            IF Entered(g)
            THEN /\ KeptOf(g) \in Range(printed_groups[g])
                 /\ KeptOf(g) \notin Called
                 /\ KeptOf(g) \in present \cup vanished
                 /\ Range(printed_groups[g]) \cap (present \cup vanished) # {}
            ELSE /\ CallsOf(g) = {}
                 /\ Range(printed_groups[g]) \subseteq present \cup vanished
    /\ (keep_file # None /\ idx <= Len(duplicates)) => keep_file = KeptOf(idx)
    /\ Called \subseteq Shown
    /\ (Range(files) \ Shown) \subseteq present

\* Witness of C18: a run at its end, two groups, one candidate deleted, the
\* deletion of the other failed, a file outside the groups scanned, and both
\* kept files in place.
C18_Witness ==
    /\ pc = "wait_key"
    /\ outcome = "completed"
    /\ Len(printed_groups) = 2
    /\ deleted_count = 1
    /\ failed_files # <<>>
    /\ KeptOf(1) \in present
    /\ KeptOf(2) \in present

=============================================================================
